---- MODULE Spec2Model ----
(***************************************************************************)
(* genomic_range (src/lib.rs): OptionalRegion, StringRegion and Region.    *)
(*                                                                         *)
(* Text is a sequence of one-character strings.  Option<T> is a sequence   *)
(* of length at most one (None == <<>>, Some(v) == <<v>>).  u64 is scaled  *)
(* down to 0..UMax; arithmetic that can overflow is taken modulo UMax + 1  *)
(* or panics, as the build's overflow checks decide.                       *)
(***************************************************************************)
EXTENDS Integers, Sequences, FiniteSets, TLC

VARIABLES
    overflow_checks, \* the build: TRUE = overflow panics (debug), FALSE = wraps (release)
    call,            \* the last call: its name and its arguments
    result,          \* "init", "ok", "panic", or the message of the returned Err
    oregion,         \* Option<OptionalRegion>: the OptionalRegion under study
    sregion,         \* Option<StringRegion>:   the StringRegion under study
    region           \* Option<Region>:         the Region under study

vars == <<overflow_checks, call, result, oregion, sregion, region>>

----------------------------------------------------------------------------
(* Bounds *)

\* The largest value of the scaled-down u64.
UMax == 10

\* The largest reference id handed to Region::new / set_ref_id.
MaxRefId == 1

U64 == 0..UMax
Modulus == UMax + 1
RefIds == 0..MaxRefId

----------------------------------------------------------------------------
(* Option and Result *)

None == <<>>
Some(v) == <<v>>
IsSome(o) == o # <<>>
Unwrap(o) == o[1]

Ok(v) == [err |-> "", val |-> Some(v)]
Err(e) == [err |-> e, val |-> None]
IsOk(r) == r.err = ""
Outcome(r) == IF IsOk(r) THEN "ok" ELSE r.err

----------------------------------------------------------------------------
(* Characters, u64 parsing and formatting *)

DigitChars == <<"0", "1", "2", "3", "4", "5", "6", "7", "8", "9">>
Digits == {DigitChars[i] : i \in 1..10}
Whitespace == {" ", "\n"}

IsDigit(c) == c \in Digits
DigitVal(c) == (CHOOSE i \in 1..10 : DigitChars[i] = c) - 1

\* <u64 as FromStr>: the digits are accumulated with checked arithmetic.
RECURSIVE ParseDigits(_, _)
ParseDigits(s, acc) ==
    IF s = <<>> THEN Ok(acc)
    ELSE IF ~IsDigit(Head(s)) THEN Err("invalid digit found in string")
    ELSE LET v == acc * 10 + DigitVal(Head(s))
         IN  IF v > UMax THEN Err("number too large to fit in target type")
             ELSE ParseDigits(Tail(s), v)

\* str::parse::<u64>(): empty text is an error, one leading '+' is accepted.
ParseU64(s) ==
    IF s = <<>> THEN Err("cannot parse integer from empty string")
    ELSE LET t == IF Head(s) = "+" THEN Tail(s) ELSE s
         IN  IF t = <<>> THEN Err("invalid digit found in string")
             ELSE ParseDigits(t, 0)

\* A plausible slip: a group that does not parse reads as zero
\* (unwrap_or_default in place of ok).
ParseOrZero(s) == IF IsOk(ParseU64(s)) THEN ParseU64(s).val ELSE Some(0)

\* .parse::<u64>().ok(): the error is dropped.
ParseOk(s) == ParseU64(s).val

\* .map_err(|e| "Parse Int Error, ".to_string() + &e.to_string())
ParseIntError(r) ==
    IF IsOk(r) THEN r
    ELSE Err(CASE r.err = "cannot parse integer from empty string" ->
                    "Parse Int Error, cannot parse integer from empty string"
               [] r.err = "invalid digit found in string" ->
                    "Parse Int Error, invalid digit found in string"
               [] OTHER ->
                    "Parse Int Error, number too large to fit in target type")

\* Display for u64: the canonical decimal text.
RECURSIVE ToDecimal(_)
ToDecimal(n) ==
    IF n < 10 THEN <<DigitChars[n + 1]>>
    ELSE Append(ToDecimal(n \div 10), DigitChars[(n % 10) + 1])

StartsWith(s, p) == Len(p) <= Len(s) /\ SubSeq(s, 1, Len(p)) = p
SkipBytes(s, n) == SubSeq(s, n + 1, Len(s))

\* str::split_whitespace(): the non-empty maximal runs of non-whitespace.
RECURSIVE SplitFrom(_, _, _)
SplitFrom(s, cur, acc) ==
    IF s = <<>> THEN (IF cur = <<>> THEN acc ELSE Append(acc, cur))
    ELSE IF Head(s) \in Whitespace
         THEN SplitFrom(Tail(s), <<>>, IF cur = <<>> THEN acc ELSE Append(acc, cur))
         ELSE SplitFrom(Tail(s), Append(cur, Head(s)), acc)

split_whitespace(s) == SplitFrom(s, <<>>, <<>>)

----------------------------------------------------------------------------
\* The regular expressions of lines 49, 79, 283 (both digit groups optional)
\* and of lines 157, 190 (first digit group of at least one digit).

\* Every way the pattern can match s: <<i, j, d>> with the ':' at i, the
\* first digit group s[i+1..j], d = 1 if '-' is consumed, and the second
\* digit group the rest.  minDigits is 0 for the optional group and 1 otherwise.
\* '.' matches anything but a line feed; '$' is the end of the text.
Matches(s, minDigits) ==
    { m \in UNION { UNION { { <<i, j, d>> : d \in {0, 1} } : j \in i..Len(s) }
                     : i \in { k \in 2..Len(s) : s[k] = ":" } } :
        LET i == m[1]
            j == m[2]
            d == m[3]
        IN  /\ \A k \in 1..(i - 1) : s[k] # "\n"
            /\ j - i >= minDigits
            /\ \A k \in (i + 1)..j : IsDigit(s[k])
            /\ d = 1 => (j + 1 <= Len(s) /\ s[j + 1] = "-")
            /\ \A k \in (j + d + 1)..Len(s) : IsDigit(s[k]) }

\* Greedy quantifiers: the longest path group, then the longest first digit
\* group, then '-' taken if it can be.
Prefers(m, n) ==
    \/ m[1] > n[1]
    \/ m[1] = n[1] /\ m[2] > n[2]
    \/ m[1] = n[1] /\ m[2] = n[2] /\ m[3] >= n[3]

\* Regex::captures(): None, or the three groups of the preferred match.
Captures(s, minDigits) ==
    LET ms == Matches(s, minDigits)
    IN  IF ms = {} THEN None
        ELSE LET m == CHOOSE x \in ms : \A y \in ms : Prefers(x, y)
             IN  Some([g1 |-> SubSeq(s, 1, m[1] - 1),
                       g2 |-> SubSeq(s, m[1] + 1, m[2]),
                       g3 |-> SubSeq(s, m[2] + m[3] + 1, Len(s))])

----------------------------------------------------------------------------
(* Prefix normalization, as both new_with_prefix functions compute it *)

\* A plausible slip: the prefix is stripped and never put back.
StripOnly(path_str, chr_prefix) ==
    IF Len(chr_prefix) = 0
    THEN IF StartsWith(path_str, <<"c", "h", "r">>) THEN SkipBytes(path_str, 3) ELSE path_str
    ELSE IF StartsWith(path_str, chr_prefix)
         THEN SkipBytes(path_str, Len(chr_prefix))
         ELSE path_str

\* path_string of lines 53-68 (and of lines 160-175, the same text).
path_string(path_str, chr_prefix) ==
    IF Len(chr_prefix) = 0
    THEN IF StartsWith(path_str, <<"c", "h", "r">>) THEN SkipBytes(path_str, 3) ELSE path_str
    ELSE LET stripped == IF StartsWith(path_str, chr_prefix)
                         THEN SkipBytes(path_str, Len(chr_prefix))
                         ELSE path_str
         IN  IF Len(stripped) < Len(chr_prefix)
             THEN chr_prefix \o stripped
             ELSE stripped

----------------------------------------------------------------------------
(* OptionalRegion *)

\* A plausible slip: text without ':' is taken as a bare path.
OptionalRegion_new_bare(path) ==
    LET caps == Captures(path, 0)
    IN  IF caps = None
        THEN IF path = <<>> THEN Err("Invalid genomic range")
             ELSE Ok([path |-> path, start |-> None, end |-> None])
        ELSE Ok([path  |-> Unwrap(caps).g1,
                 start |-> ParseOk(Unwrap(caps).g2),
                 end   |-> ParseOk(Unwrap(caps).g3)])

OptionalRegion_new(path) ==
    LET caps == Captures(path, 0)
    IN  IF caps = None THEN Err("Invalid genomic range")
        ELSE Ok([path  |-> Unwrap(caps).g1,
                 start |-> ParseOk(Unwrap(caps).g2),
                 end   |-> ParseOk(Unwrap(caps).g3)])

OptionalRegion_new_with_prefix(path, chr_prefix) ==
    LET caps == Captures(path, 0)
    IN  IF caps = None THEN Err("Invalid genomic range")
        ELSE Ok([path  |-> path_string(Unwrap(caps).g1, chr_prefix),
                 start |-> ParseOk(Unwrap(caps).g2),
                 end   |-> ParseOk(Unwrap(caps).g3)])

OptionalRegion_interval(self) ==
    IF IsSome(self.start) /\ IsSome(self.end)
    THEN IF Unwrap(self.start) < Unwrap(self.end)
         THEN Some(Unwrap(self.end) - Unwrap(self.start))
         ELSE Some(Unwrap(self.start) - Unwrap(self.end))
    ELSE None

OptionalRegion_inverted(self) ==
    IF IsSome(self.start) /\ IsSome(self.end)
    THEN Some(Unwrap(self.start) > Unwrap(self.end))
    ELSE None

\* Display for OptionalRegion, and uuid(), which formats with it.
OptionalRegion_fmt(self) ==
    IF IsSome(self.start)
    THEN IF IsSome(self.end)
         THEN self.path \o <<":">> \o ToDecimal(Unwrap(self.start))
                        \o <<"-">> \o ToDecimal(Unwrap(self.end))
         ELSE self.path \o <<":">> \o ToDecimal(Unwrap(self.start))
    ELSE self.path

----------------------------------------------------------------------------
(* StringRegion *)

new_inner(path, start_u64, end_u64) ==
    IF start_u64 > end_u64
    THEN [path |-> path, start |-> end_u64, end |-> start_u64, inverted |-> TRUE]
    ELSE [path |-> path, start |-> start_u64, end |-> end_u64, inverted |-> FALSE]

\* The tail shared by the three parsers: both bounds are parsed, the first
\* failure is returned, and new_inner builds the value.
ParseBounds(path, start_str, end_str) ==
    LET start_u64 == ParseIntError(ParseU64(start_str))
        end_u64 == ParseIntError(ParseU64(end_str))
    IN  IF ~IsOk(start_u64) THEN start_u64
        ELSE IF ~IsOk(end_u64) THEN end_u64
        ELSE Ok(new_inner(path, Unwrap(start_u64.val), Unwrap(end_u64.val)))

\* path_string is computed and then left unused: the value is built from the
\* whole argument `path`.
StringRegion_new_with_prefix(path, chr_prefix) ==
    LET caps == Captures(path, 1)
    IN  IF caps = None THEN Err("Invalid genomic range")
        ELSE LET unused == path_string(Unwrap(caps).g1, chr_prefix)
             IN  ParseBounds(path, Unwrap(caps).g2, Unwrap(caps).g3)

new_regexp(path) ==
    LET caps == Captures(path, 1)
    IN  IF caps = None THEN Err("Invalid genomic range")
        ELSE ParseBounds(Unwrap(caps).g1, Unwrap(caps).g2, Unwrap(caps).g3)

StringRegion_new(path) ==
    LET caps == split_whitespace(path)
    IN  IF Len(caps) < 3 THEN new_regexp(path)
        ELSE ParseBounds(caps[1], caps[2], caps[3])

interval(self) == self.end - self.start
left(self) == IF self.inverted THEN self.end ELSE self.start
right(self) == IF self.inverted THEN self.start ELSE self.end

\* A plausible slip: the normalized pair is printed, whatever the orientation.
StringRegion_fmt_normalized(self) ==
    self.path \o <<":">> \o ToDecimal(self.start) \o <<"-">> \o ToDecimal(self.end)

\* Display for StringRegion, and uuid(), which formats with it.
StringRegion_fmt(self) ==
    IF self.inverted
    THEN self.path \o <<":">> \o ToDecimal(self.end) \o <<"-">> \o ToDecimal(self.start)
    ELSE self.path \o <<":">> \o ToDecimal(self.start) \o <<"-">> \o ToDecimal(self.end)

\* extend: `self.start -= len` panics on underflow when the build checks
\* overflow and wraps otherwise; the comparison with 0 follows the
\* subtraction; `self.end += len` overflows the same two ways.
extend(self, len) ==
    IF self.start < len /\ overflow_checks
    THEN [self |-> self, panic |-> TRUE]
    ELSE LET wrapped == (self.start + Modulus - len) % Modulus
             start == IF wrapped <= 0 THEN 0 ELSE wrapped
         IN  IF self.end + len > UMax /\ overflow_checks
             THEN [self |-> [self EXCEPT !.start = start], panic |-> TRUE]
             ELSE [self  |-> [self EXCEPT !.start = start,
                                          !.end = (self.end + len) % Modulus],
                   panic |-> FALSE]

\* start_minus: `self.start = self.start - 1`.
start_minus(self) ==
    IF self.start < 1 /\ overflow_checks
    THEN [self |-> self, panic |-> TRUE]
    ELSE [self  |-> [self EXCEPT !.start = (self.start + Modulus - 1) % Modulus],
          panic |-> FALSE]

----------------------------------------------------------------------------
(* Region *)

\* The caller's resolver: a function from names to Option<u64>; a name it
\* does not know has no id.
ToId(to_id, name) == IF name \in DOMAIN to_id THEN to_id[name] ELSE None

\* Region::new: assert!(start <= end).
Region_new(ref_id, start, end) ==
    IF start <= end
    THEN [self |-> Some([ref_id |-> ref_id, start |-> start, end |-> end]), panic |-> FALSE]
    ELSE [self |-> None, panic |-> TRUE]

\* A plausible slip: the bounds are copied in their textual order.
convert_oriented(path, to_id) ==
    LET id == ToId(to_id, path.path)
    IN  IF id = None THEN Err("Error: the reference id is not recognized.")
        ELSE Ok([ref_id |-> Unwrap(id), start |-> left(path), end |-> right(path)])

convert(path, to_id) ==
    LET id == ToId(to_id, path.path)
    IN  IF id = None THEN Err("Error: the reference id is not recognized.")
        ELSE Ok([ref_id |-> Unwrap(id), start |-> path.start, end |-> path.end])

\* Region::parse: the bounds are read before the resolver is asked.
parse(path, to_id) ==
    LET caps == Captures(path, 0)
    IN  IF caps = None THEN Err("Invalid genomic range")
        ELSE LET start == ParseOk(Unwrap(caps).g2)
                 end == ParseOk(Unwrap(caps).g3)
                 id == ToId(to_id, Unwrap(caps).g1)
             IN  IF start = None THEN Err("Error: the reference start is not recognized.")
                 ELSE IF end = None THEN Err("Error: the reference end is not recognized.")
                 ELSE IF id = None THEN Err("Error: the reference id is not recognized.")
                 ELSE Ok([ref_id |-> Unwrap(id), start |-> Unwrap(start), end |-> Unwrap(end)])

\* How often parse calls to_id: once, and only when both bounds were read.
parse_to_id_calls(path) ==
    LET caps == Captures(path, 0)
    IN  IF caps = None THEN 0
        ELSE IF ParseOk(Unwrap(caps).g2) = None \/ ParseOk(Unwrap(caps).g3) = None THEN 0
        ELSE 1

len(self) == self.end - self.start

set_ref_id(self, ref_id) == [self |-> [self EXCEPT !.ref_id = ref_id], panic |-> FALSE]

set_start(self, start) ==
    IF start <= self.end
    THEN [self |-> [self EXCEPT !.start = start], panic |-> FALSE]
    ELSE [self |-> self, panic |-> TRUE]

set_end(self, end) ==
    IF self.start <= end
    THEN [self |-> [self EXCEPT !.end = end], panic |-> FALSE]
    ELSE [self |-> self, panic |-> TRUE]

\* A plausible slip: the upper bound is compared with <= .
include_closed(self, range) ==
    self.ref_id = range.ref_id /\ self.start <= range.start /\ range.end <= self.end

include(self, range) ==
    self.ref_id = range.ref_id /\ self.start <= range.start /\ range.end < self.end

----------------------------------------------------------------------------
(* The inputs the calls are tried on *)

PathInputs ==
    { <<>>, <<"1">>, <<"X">>, <<"c", "h", "r">>, <<"c", "h", "r", "1">>,
      <<"c", "h", "r", "X">>, <<"c", ":", "1">> }

\* Every canonical decimal of a u64, the empty group, a group with a leading
\* zero and a group too large for a u64.
NumberInputs ==
    { ToDecimal(n) : n \in U64 } \cup { <<>>, <<"0", "7">>, <<"9", "9">> }

Texts ==
    { p \o c \o a \o d \o b :
        p \in PathInputs, c \in { <<>>, <<":">>, <<" ">> },
        a \in NumberInputs, d \in { <<>>, <<"-">>, <<" ">> }, b \in NumberInputs }

Prefixes == { <<>>, <<"c", "h">>, <<"c", "h", "r">>, <<"c", "h", "r", "X">> }

Names == { <<"X">>, <<"c", "h", "r", "1">> }

\* The resolvers: every way of knowing or not knowing each name.
Resolvers == [Names -> {None, Some(MaxRefId)}]

\* The regions Region::new returns.
Regions ==
    { [ref_id |-> r, start |-> a, end |-> b] :
        r \in RefIds, a \in U64, b \in U64 } 

----------------------------------------------------------------------------
(* The state machine: one value is constructed, then used *)

Init ==
    /\ overflow_checks \in BOOLEAN
    /\ call = [op |-> "init"]
    /\ result = "init"
    /\ oregion = None
    /\ sregion = None
    /\ region = None

\* Nothing has been constructed yet.
Fresh == call.op = "init"

\* A panic ends the program.
Running == result # "panic"

DoOptionalRegionNew ==
    /\ Fresh
    /\ \E path \in Texts :
         LET r == OptionalRegion_new(path)
         IN  /\ call' = [op |-> "OptionalRegion::new", path |-> path]
             /\ result' = Outcome(r)
             /\ oregion' = r.val
    /\ UNCHANGED <<overflow_checks, sregion, region>>

DoOptionalRegionNewWithPrefix ==
    /\ Fresh
    /\ \E path \in Texts, chr_prefix \in Prefixes :
         LET r == OptionalRegion_new_with_prefix(path, chr_prefix)
         IN  /\ call' = [op |-> "OptionalRegion::new_with_prefix",
                         path |-> path, chr_prefix |-> chr_prefix]
             /\ result' = Outcome(r)
             /\ oregion' = r.val
    /\ UNCHANGED <<overflow_checks, sregion, region>>

DoStringRegionNew ==
    /\ Fresh
    /\ \E path \in Texts :
         LET r == StringRegion_new(path)
         IN  /\ call' = [op |-> "StringRegion::new", path |-> path]
             /\ result' = Outcome(r)
             /\ sregion' = r.val
    /\ UNCHANGED <<overflow_checks, oregion, region>>

DoStringRegionNewWithPrefix ==
    /\ Fresh
    /\ \E path \in Texts, chr_prefix \in Prefixes :
         LET r == StringRegion_new_with_prefix(path, chr_prefix)
         IN  /\ call' = [op |-> "StringRegion::new_with_prefix",
                         path |-> path, chr_prefix |-> chr_prefix]
             /\ result' = Outcome(r)
             /\ sregion' = r.val
    /\ UNCHANGED <<overflow_checks, oregion, region>>

DoNewInner ==
    /\ Fresh
    /\ \E path \in Names, start_u64 \in U64, end_u64 \in U64 :
         /\ call' = [op |-> "StringRegion::new_inner", path |-> path,
                     start_u64 |-> start_u64, end_u64 |-> end_u64]
         /\ result' = "ok"
         /\ sregion' = Some(new_inner(path, start_u64, end_u64))
    /\ UNCHANGED <<overflow_checks, oregion, region>>

DoExtend ==
    /\ Running
    /\ IsSome(sregion)
    /\ \E n \in U64 :
         LET r == extend(Unwrap(sregion), n)
         IN  /\ call' = [op |-> "StringRegion::extend", self |-> Unwrap(sregion), len |-> n]
             /\ result' = IF r.panic THEN "panic" ELSE "ok"
             /\ sregion' = Some(r.self)
    /\ UNCHANGED <<overflow_checks, oregion, region>>

DoStartMinus ==
    /\ Running
    /\ IsSome(sregion)
    /\ LET r == start_minus(Unwrap(sregion))
       IN  /\ call' = [op |-> "StringRegion::start_minus", self |-> Unwrap(sregion)]
           /\ result' = IF r.panic THEN "panic" ELSE "ok"
           /\ sregion' = Some(r.self)
    /\ UNCHANGED <<overflow_checks, oregion, region>>

DoRegionNew ==
    /\ Fresh
    /\ \E ref_id \in RefIds, start \in U64, end \in U64 :
         LET r == Region_new(ref_id, start, end)
         IN  /\ call' = [op |-> "Region::new", ref_id |-> ref_id,
                         start |-> start, end |-> end]
             /\ result' = IF r.panic THEN "panic" ELSE "ok"
             /\ region' = r.self
    /\ UNCHANGED <<overflow_checks, oregion, sregion>>

\* The StringRegion handed to convert is one new_inner built.
DoConvert ==
    /\ Fresh
    /\ \E name \in Names \cup {<<"1">>}, a \in U64, b \in U64, to_id \in Resolvers :
         LET path == new_inner(name, a, b)
             r == convert(path, to_id)
         IN  /\ call' = [op |-> "Region::convert", path |-> path, to_id |-> to_id,
                         to_id_calls |-> 1]
             /\ result' = Outcome(r)
             /\ region' = r.val
    /\ UNCHANGED <<overflow_checks, oregion, sregion>>

DoParse ==
    /\ Fresh
    /\ \E path \in Texts, to_id \in Resolvers :
         LET r == parse(path, to_id)
         IN  /\ call' = [op |-> "Region::parse", path |-> path, to_id |-> to_id,
                         to_id_calls |-> parse_to_id_calls(path)]
             /\ result' = Outcome(r)
             /\ region' = r.val
    /\ UNCHANGED <<overflow_checks, oregion, sregion>>

DoSetRefId ==
    /\ Running
    /\ IsSome(region)
    /\ \E ref_id \in RefIds :
         LET r == set_ref_id(Unwrap(region), ref_id)
         IN  /\ call' = [op |-> "Region::set_ref_id", ref_id |-> ref_id]
             /\ result' = "ok"
             /\ region' = Some(r.self)
    /\ UNCHANGED <<overflow_checks, oregion, sregion>>

DoSetStart ==
    /\ Running
    /\ IsSome(region)
    /\ \E start \in U64 :
         LET r == set_start(Unwrap(region), start)
         IN  /\ call' = [op |-> "Region::set_start", start |-> start]
             /\ result' = IF r.panic THEN "panic" ELSE "ok"
             /\ region' = Some(r.self)
    /\ UNCHANGED <<overflow_checks, oregion, sregion>>

DoSetEnd ==
    /\ Running
    /\ IsSome(region)
    /\ \E end \in U64 :
         LET r == set_end(Unwrap(region), end)
         IN  /\ call' = [op |-> "Region::set_end", end |-> end]
             /\ result' = IF r.panic THEN "panic" ELSE "ok"
             /\ region' = Some(r.self)
    /\ UNCHANGED <<overflow_checks, oregion, sregion>>

\* include(&self, range): range is a region Region::new returns, or a clone
\* of self.
DoInclude ==
    /\ Running
    /\ IsSome(region)
    /\ \E range \in { x \in Regions : x.start <= x.end } \cup { Unwrap(region) } :
         /\ call' = [op |-> "Region::include", range |-> range,
                     ret |-> include(Unwrap(region), range)]
         /\ result' = "ok"
    /\ UNCHANGED <<overflow_checks, oregion, sregion, region>>

NextParse ==
    \/ DoOptionalRegionNew
    \/ DoOptionalRegionNewWithPrefix
    \/ DoStringRegionNew
    \/ DoStringRegionNewWithPrefix

NextString ==
    \/ DoStringRegionNew
    \/ DoNewInner
    \/ DoExtend
    \/ DoStartMinus

NextRegion ==
    \/ DoRegionNew
    \/ DoConvert
    \/ DoParse
    \/ DoSetRefId
    \/ DoSetStart
    \/ DoSetEnd
    \/ DoInclude

SpecParse == Init /\ [][NextParse]_vars
SpecString == Init /\ [][NextString]_vars
SpecRegion == Init /\ [][NextRegion]_vars

----------------------------------------------------------------------------
(* What the claims are stated with: the input text read directly, not
   through the pattern matcher or the integer parser *)

Chr1 == <<"c", "h", "r", "1">>

Max(a, b) == IF a >= b THEN a ELSE b
Min(a, b) == IF a <= b THEN a ELSE b

HasColon(s) == \E k \in 1..Len(s) : s[k] = ":"
LastColon(s) == CHOOSE k \in 1..Len(s) : s[k] = ":" /\ \A j \in (k + 1)..Len(s) : s[j] # ":"
BeforeLastColon(s) == SubSeq(s, 1, LastColon(s) - 1)
AfterLastColon(s) == SubSeq(s, LastColon(s) + 1, Len(s))

\* The digits s begins with, and what follows them.
RECURSIVE LeadingDigits(_)
LeadingDigits(s) ==
    IF s # <<>> /\ Head(s) \in Digits THEN <<Head(s)>> \o LeadingDigits(Tail(s)) ELSE <<>>

\* The number a run of digits writes, however large.
RECURSIVE Value(_)
Value(s) ==
    IF s = <<>> THEN 0
    ELSE 10 * Value(SubSeq(s, 1, Len(s) - 1)) + DigitVal(s[Len(s)])

\* A run of digits that writes a u64.
WritesU64(s) == s # <<>> /\ (\A k \in 1..Len(s) : s[k] \in Digits) /\ Value(s) <= UMax

\* The two digit groups of "<first>-<second>" or "<first><second>".
FirstGroup(s) == LeadingDigits(AfterLastColon(s))
SecondGroup(s) ==
    LET rest == SubSeq(AfterLastColon(s), Len(FirstGroup(s)) + 1, Len(AfterLastColon(s)))
    IN  IF rest # <<>> /\ Head(rest) = "-" THEN Tail(rest) ELSE rest

----------------------------------------------------------------------------
(* C1 *)

\* C1: every Region that exists has start <= end, whichever of Region::new,
\* Region::convert and Region::parse produced it and whatever set_ref_id,
\* set_start and set_end calls followed without aborting.
\* So len() = end - start never underflows.
C1_RegionStartLeEnd ==
    IsSome(region) =>
        /\ Unwrap(region).start <= Unwrap(region).end
        /\ len(Unwrap(region)) >= 0

----------------------------------------------------------------------------
(* C2 *)

\* C2: StringRegion::new_with_prefix stores as path the prefix-normalized
\* form of the text before the last ':', never the whole input, and the
\* result displays as <normalized path>:<left>-<right>.
C2_StoresNormalizedPath ==
    (call.op = "StringRegion::new_with_prefix" /\ result = "ok") =>
        LET self == Unwrap(sregion)
            normalized == path_string(BeforeLastColon(call.path), call.chr_prefix)
        IN  /\ self.path = normalized
            /\ self.path # call.path
            /\ StringRegion_fmt(self) =
                 normalized \o <<":">> \o ToDecimal(left(self))
                            \o <<"-">> \o ToDecimal(right(self))

----------------------------------------------------------------------------
(* C3 *)

\* C3 as claimed: OptionalRegion::new of a non-empty path without ':'
\* succeeds with start = None and end = None, interval() and inverted() are
\* None and display() is the input.
C3_BarePathAccepted ==
    (call.op = "OptionalRegion::new" /\ call.path # <<>> /\ ~HasColon(call.path)) =>
        /\ result = "ok"
        /\ IsSome(oregion)
        /\ Unwrap(oregion).start = None
        /\ Unwrap(oregion).end = None
        /\ OptionalRegion_interval(Unwrap(oregion)) = None
        /\ OptionalRegion_inverted(Unwrap(oregion)) = None
        /\ OptionalRegion_fmt(Unwrap(oregion)) = call.path

\* C3 as amended: OptionalRegion::new of text without ':' fails with
\* "Invalid genomic range"; the boundless region comes from the path followed
\* by a lone ':' (the path non-empty, without ':' and without a line feed):
\* then start = None and end = None, interval() and inverted() are None and
\* display() is the path.
C3_BarePathNeedsColon ==
    call.op = "OptionalRegion::new" =>
        /\ ~HasColon(call.path) =>
              (result = "Invalid genomic range" /\ oregion = None)
        /\ LET n == Len(call.path) - 1
               p == SubSeq(call.path, 1, n)
           IN  ( /\ n >= 1
                 /\ call.path[n + 1] = ":"
                 /\ ~HasColon(p)
                 /\ \A k \in 1..n : p[k] # "\n" ) =>
                  /\ result = "ok"
                  /\ IsSome(oregion)
                  /\ Unwrap(oregion).path = p
                  /\ Unwrap(oregion).start = None
                  /\ Unwrap(oregion).end = None
                  /\ OptionalRegion_interval(Unwrap(oregion)) = None
                  /\ OptionalRegion_inverted(Unwrap(oregion)) = None
                  /\ OptionalRegion_fmt(Unwrap(oregion)) = p

\* OptionalRegion::new("chr1") was called and returned the error.
C3_Witness ==
    /\ call.op = "OptionalRegion::new"
    /\ call.path = Chr1
    /\ result = "Invalid genomic range"

----------------------------------------------------------------------------
(* C5 *)

\* C5: for every text "<path>:<a>-<b>" with a non-empty whitespace-free path
\* and canonical decimals a and b, StringRegion::new succeeds with
\* start = min(a, b), end = max(a, b), inverted = (a > b), left() = a,
\* right() = b, and display() is the input text.
C5_RoundTrip ==
    call.op = "StringRegion::new" =>
        \A a \in U64, b \in U64 :
            LET bounds == <<":">> \o ToDecimal(a) \o <<"-">> \o ToDecimal(b)
                n == Len(call.path) - Len(bounds)
            IN  ( /\ n >= 1
                  /\ SubSeq(call.path, n + 1, Len(call.path)) = bounds
                  /\ \A k \in 1..n : call.path[k] \notin Whitespace ) =>
                    /\ result = "ok"
                    /\ IsSome(sregion)
                    /\ Unwrap(sregion).path = SubSeq(call.path, 1, n)
                    /\ Unwrap(sregion).start = Min(a, b)
                    /\ Unwrap(sregion).end = Max(a, b)
                    /\ Unwrap(sregion).inverted = (a > b)
                    /\ left(Unwrap(sregion)) = a
                    /\ right(Unwrap(sregion)) = b
                    /\ StringRegion_fmt(Unwrap(sregion)) = call.path

\* StringRegion::new("chr1:10-2") returned an inverted region.
C5_Witness ==
    /\ call.op = "StringRegion::new"
    /\ call.path = Chr1 \o <<":", "1", "0", "-", "2">>
    /\ result = "ok"
    /\ Unwrap(sregion).inverted

----------------------------------------------------------------------------
(* C6 *)

\* C6 as claimed: with a non-empty prefix p, a path p.r with r non-empty is
\* stored as r, and with prefix "chrX" the path "X" is stored as "chrX".
C6_PrefixStripped ==
    ( /\ call.op = "OptionalRegion::new_with_prefix"
      /\ result = "ok"
      /\ call.chr_prefix # <<>> ) =>
        LET given == BeforeLastColon(call.path)
            p == call.chr_prefix
        IN  /\ (StartsWith(given, p) /\ Len(given) > Len(p)) =>
                  Unwrap(oregion).path = SkipBytes(given, Len(p))
            /\ (p = <<"c", "h", "r", "X">> /\ given = <<"X">>) =>
                  Unwrap(oregion).path = <<"c", "h", "r", "X">>

\* C6 as amended: OptionalRegion::new_with_prefix with a non-empty prefix p
\* stores a path p.r as r only when r is at least as long as p, and as p.r
\* when r is shorter; a path that does not start with p is stored as it is,
\* or with p put in front when it is shorter than p.
C6_PrefixStrippedOrRestored ==
    ( /\ call.op = "OptionalRegion::new_with_prefix"
      /\ result = "ok"
      /\ call.chr_prefix # <<>> ) =>
        LET given == BeforeLastColon(call.path)
            p == call.chr_prefix
            r == SkipBytes(given, Len(p))
        IN  /\ StartsWith(given, p) =>
                  Unwrap(oregion).path = IF Len(r) >= Len(p) THEN r ELSE given
            /\ ~StartsWith(given, p) =>
                  Unwrap(oregion).path = IF Len(given) < Len(p) THEN p \o given ELSE given

\* new_with_prefix("chr1:1-2", "chr") stored the path "chr1".
C6_Witness ==
    /\ call.op = "OptionalRegion::new_with_prefix"
    /\ call.path = Chr1 \o <<":", "1", "-", "2">>
    /\ call.chr_prefix = <<"c", "h", "r">>
    /\ Unwrap(oregion).path = Chr1

----------------------------------------------------------------------------
(* C10 *)

\* C10 as claimed: a parsed OptionalRegion with an end has a start.
C10_NoEndOnly ==
    ( /\ call.op \in {"OptionalRegion::new", "OptionalRegion::new_with_prefix"}
      /\ result = "ok" ) =>
        (IsSome(Unwrap(oregion).end) => IsSome(Unwrap(oregion).start))

\* C10 as amended: a parsed OptionalRegion has an end and no start exactly
\* when, after the last ':', the first digit group does not write a u64 (it
\* is empty or too large) and the second digit group writes a u64.
C10_EndOnlyExactly ==
    ( /\ call.op \in {"OptionalRegion::new", "OptionalRegion::new_with_prefix"}
      /\ result = "ok" ) =>
        ( (IsSome(Unwrap(oregion).end) /\ ~IsSome(Unwrap(oregion).start))
          <=> (~WritesU64(FirstGroup(call.path)) /\ WritesU64(SecondGroup(call.path))) )

\* OptionalRegion::new("chr1:-5") returned an end without a start.
C10_Witness ==
    /\ call.op = "OptionalRegion::new"
    /\ call.path = Chr1 \o <<":", "-", "5">>
    /\ result = "ok"
    /\ Unwrap(oregion).start = None
    /\ Unwrap(oregion).end = Some(5)

----------------------------------------------------------------------------
(* C4 *)

\* C4: extend(length) saturates: start becomes max(start - length, 0) and end
\* becomes end + length, and when length > start the call neither wraps start
\* nor aborts.  (Stated where end + length is itself a u64.)
C4_ExtendSaturates ==
    (call.op = "StringRegion::extend" /\ call.self.end + call.len <= UMax) =>
        /\ result = "ok"
        /\ Unwrap(sregion).start = Max(call.self.start - call.len, 0)
        /\ Unwrap(sregion).end = call.self.end + call.len

----------------------------------------------------------------------------
(* C9 *)

\* C9: a StringRegion has start <= end in every reachable state, after any
\* extend and start_minus calls, so interval() = end - start is never
\* negative.
C9_StringRegionStartLeEnd ==
    IsSome(sregion) =>
        /\ Unwrap(sregion).start <= Unwrap(sregion).end
        /\ interval(Unwrap(sregion)) >= 0

----------------------------------------------------------------------------
(* C7 *)

\* C7: Region::convert returns the resolution error exactly when to_id knows
\* no id for the StringRegion's path; otherwise the Region has the id to_id
\* returned and the StringRegion's start and end, inverted or not; to_id is
\* called at most once.
C7_Convert ==
    call.op = "Region::convert" =>
        LET id == IF call.path.path \in DOMAIN call.to_id
                  THEN call.to_id[call.path.path] ELSE None
        IN  /\ (result = "Error: the reference id is not recognized.") <=> (id = None)
            /\ id = None => region = None
            /\ id # None =>
                  /\ result = "ok"
                  /\ region = Some([ref_id |-> id[1],
                                    start  |-> call.path.start,
                                    end    |-> call.path.end])
            /\ call.to_id_calls <= 1

\* convert was given an inverted StringRegion with a known path and returned
\* a Region.
C7_Witness ==
    /\ call.op = "Region::convert"
    /\ call.path.inverted
    /\ call.path.start < call.path.end
    /\ result = "ok"
    /\ IsSome(region)

----------------------------------------------------------------------------
(* C8 *)

\* C8: include(other) is true iff the reference ids agree, self.start <=
\* other.start and other.end < self.end; so no region includes itself, while
\* Region(0, 0, 10) includes Region(0, 2, 9).
C8_Include ==
    /\ call.op = "Region::include" =>
          LET self == Unwrap(region)
              other == call.range
          IN  /\ call.ret <=> ( /\ self.ref_id = other.ref_id
                                /\ self.start <= other.start
                                /\ other.end < self.end )
              /\ other = self => ~call.ret
              /\ ( /\ self = [ref_id |-> 0, start |-> 0, end |-> 10]
                   /\ other = [ref_id |-> 0, start |-> 2, end |-> 9] ) => call.ret
    /\ IsSome(region) => ~include(Unwrap(region), Unwrap(region))

\* A region was asked whether it includes a copy of itself, and said no.
C8_Witness ==
    /\ call.op = "Region::include"
    /\ call.range = Unwrap(region)
    /\ Unwrap(region).start < Unwrap(region).end
    /\ ~call.ret

====
